---- MODULE Spec2Model ----
(***************************************************************************)
(* Model of mycroft/stt/__init__.py: the streaming STT pipeline            *)
(* (StreamingSTT + StreamThread) and the backend factory (STTFactory).     *)
(***************************************************************************)
EXTENDS Integers, Sequences, FiniteSets, TLC

\* ---------------------------------------------------------------- bounds
MaxStreams == 2      \* stream_start calls explored
MaxChunks == 2       \* stream_data calls explored per stream
MaxResponses == 1    \* responses the transport yields per stream
MaxCalls == 2        \* calls explored on a synchronous backend or helper
MaxLen == 4          \* characters of a configured language tag

\* ------------------------------------------------------------ value sets
None == "None"                       \* Python's None, as a value
Chunks == {"a", "b"}                 \* audio chunks (bytes)
Hyps == {"h1", "h2"}                 \* transcripts the transport reports
Langs == {"en-US", "de-DE"}
Kinds == {"google_cloud_streaming", "deepspeech_stream_server"}

NoStream == 0        \* self.stream is None
NoQueue == 0         \* self.queue is None
Unset == -1          \* self.queue was never assigned (no such attribute)

Workers == 1..MaxStreams
QueueIds == 1..(2 * MaxStreams)

\* responses of the streaming transport: res.results may be empty, and a
\* non-empty result is interim or final
Responses ==
    {[results |-> FALSE, is_final |-> FALSE, transcript |-> None]} \cup
    [results : {TRUE}, is_final : BOOLEAN, transcript : Hyps]

VARIABLES
    kind,        \* which StreamingSTT subclass the backend is
    lang,        \* self.lang of the backend
    stream,      \* self.stream: NoStream or the worker
    queue,       \* self.queue: Unset, NoQueue or a queue
    queues,      \* contents of every Queue object allocated so far
    nextQ,       \* number of Queue objects allocated
    nextW,       \* number of StreamThread objects created
    alive,       \* Thread.is_alive() of each worker
    outcome,     \* how each worker's run() stands: new/running/returned/raised
    wqueue,      \* StreamThread.queue of each worker
    wlanguage,   \* StreamThread.language of each worker
    text,        \* StreamThread.text of each worker
    genDone,     \* _get_data() of the worker has stopped on the sentinel
    nresp,       \* responses the worker's transport has yielded
    yielded,     \* history: what _get_data() has yielded
    sent,        \* history: what stream_data was given while the worker was the stream
    pc,          \* where the caller thread is
    op,          \* the StreamingSTT method the caller is in
    reqLang,     \* language argument of the last stream_start
    ret,         \* outcome of the caller's last completed call
    nstarts,     \* stream_start calls made
    hadStream,   \* history: the call in `op` found self.stream not None
    lastStopped, \* history: worker the last stream_stop collected from
    stopRet,     \* history: text that stream_stop read from it
    fenv,        \* STTFactory.create(): configuration and environment
    fres,        \* STTFactory.create(): what the call did
    track,       \* whether the history `seen` is being recorded
    seen,        \* history: the responses each worker's transport yielded
    xb,          \* a synchronous backend: class, credential, self.lang, ...
    xcalls,      \* execute() calls made on it
    xlast,       \* what the last execute() call did
    ltag,        \* init_language: the configured "lang"
    lres         \* init_language: what it returned, once and twice over

backendVars == <<kind, lang, track, stream, queue, queues, nextQ, nextW>>
workerVars == <<alive, outcome, wqueue, wlanguage, text, genDone, nresp, yielded,
               seen>>
callerVars == <<pc, op, reqLang, ret, nstarts, hadStream, lastStopped,
               stopRet, sent>>
factoryVars == <<fenv, fres>>
execVars == <<xb, xcalls, xlast>>
langVars == <<ltag, lres>>
otherVars == <<factoryVars, execVars, langVars>>
vars == <<backendVars, workerVars, callerVars, otherVars>>

\* ------------------------------------------------------------ helpers
IsPrefix(s, t) == Len(s) <= Len(t) /\ SubSeq(t, 1, Len(s)) = s

AllChunks(s) == \A i \in 1..Len(s) : s[i] \in Chunks

StartsWithEn(l) == l \in {"en-US"}

Returned(o, v) == [op |-> o, val |-> v, exc |-> None]
Raised(o, e) == [op |-> o, val |-> None, exc |-> e]

\* variant: a queue that hands out the newest item first
QueuePutFront(q, item) == <<item>> \o q

\* Queue.put(item) on an unbounded queue.Queue: appended at the tail
QueuePut(q, item) == Append(q, item)

\* variant: stream_stop goes on without waiting for the worker
JoinedNoWait(w) == TRUE

\* Thread.join() has returned for worker w
Joined(w) == ~alive[w]

\* DeepSpeechStreamThread.__init__ rejects a non-English language
CreateRaises == kind = "deepspeech_stream_server" /\ ~StartsWithEn(lang)

\* ------------------------------------------------------------ STTFactory
\* STTFactory.CLASSES
CLASSES ==
    [mycroft |-> "MycroftSTT",
     google |-> "GoogleSTT",
     google_cloud |-> "GoogleCloudSTT",
     google_cloud_streaming |-> "GoogleCloudStreamingSTT",
     wit |-> "WITSTT",
     ibm |-> "IBMSTT",
     kaldi |-> "KaldiSTT",
     bing |-> "BingSTT",
     govivace |-> "GoVivaceSTT",
     houndify |-> "HoundifySTT",
     deepspeech_server |-> "DeepSpeechServerSTT",
     deepspeech_stream_server |-> "DeepSpeechStreamServerSTT",
     mycroft_deepspeech |-> "MycroftDeepSpeechSTT",
     yandex |-> "YandexSTT",
     baidu |-> "BaiduSTT",
     microsoft |-> "MicrosoftSTT"]

\* what the plugin loader knows: one installed plugin
Plugins == [my_plugin |-> "MyPluginSTT"]

Absent == "<absent>"        \* the stt configuration has no "module" key
NotAString == "<null>"      \* "module" is configured, but not to a string
Modules == DOMAIN CLASSES \cup DOMAIN Plugins \cup
           {"does-not-exist", Absent, NotAString}

NoExc == [type |-> None, attempt |-> 0]
Exc(t, n) == [type |-> t, attempt |-> n]

\* config.get("module", "mycroft")
ConfiguredModule(env) == IF env.module = Absent THEN "mycroft" ELSE env.module

\* clazz() for the n-th construction attempt of create(): the exception it
\* raises, or NoExc
Construct(env, clazz, n) ==
    IF clazz = "MycroftSTT"
      THEN IF env.defaultRaises THEN Exc("ConstructionError", n) ELSE NoExc
      ELSE IF env.ctorRaises THEN Exc("ConstructionError", n) ELSE NoExc

\* variants: the except clause never falls back / always falls back
FallsBackNever(module) == FALSE
FallsBackAlways(module) == TRUE

\* the `if module != 'mycroft'` of the except clause
FallsBack(module) == module # "mycroft"

FactoryOutcome(backend, exc, caught, attempts, loads) ==
    [done |-> TRUE, backend |-> backend, exc |-> exc, caught |-> caught,
     attempts |-> attempts, loads |-> loads]

\* the except clause of create(): `caught` is the exception being handled
FactoryExcept(env, caught, attempts, loads) ==
    IF env.cfgRaises
      THEN \* `module` was never bound: evaluating it raises
           FactoryOutcome(None, Exc("UnboundLocalError", 0), caught,
                          attempts, loads)
      ELSE IF FallsBack(ConfiguredModule(env))
        THEN LET n == Len(attempts) + 1
                 e == Construct(env, "MycroftSTT", n) IN
             FactoryOutcome(IF e = NoExc THEN "MycroftSTT" ELSE None, e,
                            caught, Append(attempts, "MycroftSTT"), loads)
        ELSE FactoryOutcome(None, caught, caught, attempts, loads)

\* variant: the plugin loader is asked first, the table only after it
FactoryLookupLoaderFirst(env, module) ==
    IF module \in DOMAIN Plugins
      THEN LET e == Construct(env, Plugins[module], 1) IN
           IF e = NoExc
             THEN FactoryOutcome(Plugins[module], NoExc, NoExc,
                                 <<Plugins[module]>>, <<module>>)
             ELSE FactoryExcept(env, e, <<Plugins[module]>>, <<module>>)
      ELSE IF module \in DOMAIN CLASSES
        THEN LET e == Construct(env, CLASSES[module], 1) IN
             IF e = NoExc
               THEN FactoryOutcome(CLASSES[module], NoExc, NoExc,
                                   <<CLASSES[module]>>, <<module>>)
               ELSE FactoryExcept(env, e, <<CLASSES[module]>>, <<module>>)
        ELSE FactoryExcept(env, Exc("PluginNotFound", 0), <<>>, <<module>>)

\* the try block of create(), from the class lookup on
FactoryLookup(env, module) ==
    IF module \in DOMAIN CLASSES
      THEN LET e == Construct(env, CLASSES[module], 1) IN
           IF e = NoExc
             THEN FactoryOutcome(CLASSES[module], NoExc, NoExc,
                                 <<CLASSES[module]>>, <<>>)
             ELSE FactoryExcept(env, e, <<CLASSES[module]>>, <<>>)
      ELSE IF module \in DOMAIN Plugins
        THEN LET e == Construct(env, Plugins[module], 1) IN
             IF e = NoExc
               THEN FactoryOutcome(Plugins[module], NoExc, NoExc,
                                   <<Plugins[module]>>, <<module>>)
               ELSE FactoryExcept(env, e, <<Plugins[module]>>, <<module>>)
        ELSE FactoryExcept(env, Exc("PluginNotFound", 0), <<>>, <<module>>)

\* STTFactory.create()
FactoryCreate(env) ==
    IF env.cfgRaises
      THEN FactoryExcept(env, Exc("ConfigurationError", 0), <<>>, <<>>)
      ELSE IF ConfiguredModule(env) = NotAString
        THEN \* "module of stt is " + module
             FactoryExcept(env, Exc("TypeError", 0), <<>>, <<>>)
        ELSE FactoryLookup(env, ConfiguredModule(env))

\* ------------------------------------------- synchronous backends
\* the classes whose execute() is modelled
ExecClasses == {"MycroftSTT", "MycroftDeepSpeechSTT", "IBMSTT", "GoogleSTT"}
TokenClasses == {"IBMSTT", "GoogleSTT"}         \* subclasses of TokenSTT
XLangs == {"en-US", "ru-RU"}
Missing == "<missing>"        \* the credential has no "token" entry
Credentials == {Missing, "", "tok"}
Urls == {"", "https://ibm"}   \* self.config.get('url', '')
IBMSupported == {"en-US"}     \* supported_languages of IBMSTT, within XLangs

\* how one request to the vendor transport ends
Outcomes == {"ok", "http401", "http500", "error"}
ApiResponse == "[hello]"      \* the list STTApi.stt returns
Transcript == "hello"
PairingPhrase == "pair my device"
PairingStatus == 401

XReturn(v) == [kind |-> "return", type |-> None, status |-> 0, val |-> v]
XRaise(t, st) == [kind |-> "raise", type |-> t, status |-> st, val |-> None]
NoOut == [kind |-> None, type |-> None, status |-> 0, val |-> None]
XRequest(cls, token, l, rate) ==
    [cls |-> cls, token |-> token, lang |-> l, rate |-> rate]
XResult(inner, out, requests, l) ==
    [inner |-> inner, out |-> out, requests |-> requests, lang |-> l]

\* str(self.credential.get("token")): a missing entry becomes the text None
TokenOf(cred) == IF cred = Missing THEN "None" ELSE cred

\* `language or self.lang`
LanguageOr(language, l) == IF language \in {None, ""} THEN l ELSE language

\* self.api.stt(...) of mycroft.api.STTApi under outcome o
ApiStt(o) ==
    CASE o = "ok" -> XReturn(ApiResponse)
      [] o = "http401" -> XRaise("HTTPError", 401)
      [] o = "http500" -> XRaise("HTTPError", 500)
      [] OTHER -> XRaise("ConnectionError", 0)

\* the [0] MycroftSTT.execute takes of the returned list
First(out) == IF out.val = ApiResponse THEN XReturn(Transcript) ELSE out

\* variant: any HTTP error starts the pairing
RequiresPairingAnyStatus(out) ==
    IF out.kind = "raise" /\ out.type = "HTTPError"
      THEN XReturn(PairingPhrase)
      ELSE out

\* requires_pairing: what wrapper() makes of the outcome of func()
RequiresPairing(out) ==
    IF out.kind = "raise" /\ out.type = "HTTPError"
         /\ out.status = PairingStatus
      THEN XReturn(PairingPhrase)
      ELSE out

\* variant: a 401 from the first attempt is not retried
MycroftExecuteKeeps401(b, language, outs) ==
    LET l == LanguageOr(language, b.lang)
        r1 == XRequest(b.cls, None, l, "16000")
        r2 == XRequest(b.cls, None, l, "native")
        o1 == ApiStt(outs[1])
        o2 == ApiStt(outs[2])
    IN  IF o1.kind = "return" \/ o1 = XRaise("HTTPError", PairingStatus)
          THEN XResult(First(o1), RequiresPairing(First(o1)), <<r1>>, l)
          ELSE XResult(First(o2), RequiresPairing(First(o2)), <<r1, r2>>, l)

\* variant: MycroftSTT.execute without the second attempt
MycroftExecuteOnce(b, language, outs) ==
    LET l == LanguageOr(language, b.lang)
        o1 == ApiStt(outs[1]) IN
    XResult(First(o1), RequiresPairing(First(o1)),
            <<XRequest(b.cls, None, l, "16000")>>, l)

\* MycroftSTT.execute (with its decorator)
MycroftExecute(b, language, outs) ==
    LET l == LanguageOr(language, b.lang)
        r1 == XRequest(b.cls, None, l, "16000")
        r2 == XRequest(b.cls, None, l, "native")
        o1 == ApiStt(outs[1])
        o2 == ApiStt(outs[2])
    IN  IF o1.kind = "return"
          THEN XResult(First(o1), RequiresPairing(First(o1)), <<r1>>, l)
          ELSE XResult(First(o2), RequiresPairing(First(o2)), <<r1, r2>>, l)

\* MycroftDeepSpeechSTT.execute (with its decorator)
MycroftDeepSpeechExecute(b, language, outs) ==
    LET l == LanguageOr(language, b.lang)
        o1 == ApiStt(outs[1])
    IN  IF ~StartsWithEn(l)
          THEN XResult(XRaise("ValueError", 0),
                       RequiresPairing(XRaise("ValueError", 0)), <<>>, b.lang)
          ELSE XResult(o1, RequiresPairing(o1),
                       <<XRequest(b.cls, None, b.lang, "native")>>, b.lang)

\* what IBMSTT.execute makes of the response to its post()
IBMResponse(o) ==
    CASE o = "ok" -> XReturn(Transcript)
      [] o = "error" -> XRaise("ConnectionError", 0)
      [] OTHER -> XRaise("Exception", 0)

\* IBMSTT.execute
IBMExecute(b, language, outs) ==
    LET l == LanguageOr(language, b.lang)
        fail(e, ll) == XResult(e, e, <<>>, ll)
    IN  IF TokenOf(b.cred) = "" THEN fail(XRaise("ValueError", 0), b.lang)
        ELSE IF b.url = "" THEN fail(XRaise("ValueError", 0), b.lang)
        ELSE IF l \notin IBMSupported THEN fail(XRaise("ValueError", 0), l)
        ELSE XResult(IBMResponse(outs[1]), IBMResponse(outs[1]),
                     <<XRequest(b.cls, TokenOf(b.cred), l, "native")>>, l)

\* variant: the resolved language is kept in a local, not on the backend
GoogleExecuteLocal(b, language, outs) ==
    LET l == LanguageOr(language, b.lang)
        o == IF outs[1] = "ok" THEN XReturn(Transcript)
                               ELSE XRaise("RequestError", 0)
    IN  XResult(o, o, <<XRequest(b.cls, TokenOf(b.cred), l, "native")>>,
                b.lang)

\* GoogleSTT.execute: recognize_google(audio, self.token, self.lang)
GoogleExecute(b, language, outs) ==
    LET l == LanguageOr(language, b.lang)
        o == IF outs[1] = "ok" THEN XReturn(Transcript)
                               ELSE XRaise("RequestError", 0)
    IN  XResult(o, o, <<XRequest(b.cls, TokenOf(b.cred), l, "native")>>, l)

\* execute(audio, language) of backend b; outs[i] is how its i-th request to
\* the transport ends, should it make one
ExecuteOf(b, language, outs) ==
    CASE b.cls = "MycroftSTT" -> MycroftExecute(b, language, outs)
      [] b.cls = "MycroftDeepSpeechSTT" ->
                                 MycroftDeepSpeechExecute(b, language, outs)
      [] b.cls = "IBMSTT" -> IBMExecute(b, language, outs)
      [] OTHER -> GoogleExecute(b, language, outs)

\* ------------------------------------------------------ STT.init_language
\* a language tag is a sequence of characters; the configuration is a mapping
\* that has a "lang" entry or has none
TagChars == {"e", "E", "n", "N", "-", "1"}
Tags == UNION {[1..n -> TagChars] : n \in 0..MaxLen}
DefaultLang == <<"e", "n", "-", "U", "S">>
LangConfigs == {<<>>} \cup {[k \in {"lang"} |-> t] : t \in Tags}

\* dict.get(key, default)
ConfigGet(cfg, key, default) ==
    IF key \in DOMAIN cfg THEN cfg[key] ELSE default

\* str.lower() and str.upper(), character by character
LowerChar(c) ==
    CASE c = "E" -> "e"
      [] c = "N" -> "n"
      [] c = "U" -> "u"
      [] c = "S" -> "s"
      [] OTHER -> c
UpperChar(c) ==
    CASE c = "e" -> "E"
      [] c = "n" -> "N"
      [] c = "u" -> "U"
      [] c = "s" -> "S"
      [] OTHER -> c
Lower(s) == [i \in 1..Len(s) |-> LowerChar(s[i])]
Upper(s) == [i \in 1..Len(s) |-> UpperChar(s[i])]

\* lang.split("-"): the pieces between the hyphens, empty pieces included
RECURSIVE Split(_)
Split(s) ==
    LET hyphens == {i \in 1..Len(s) : s[i] = "-"} IN
      IF hyphens = {}
        THEN <<s>>
        ELSE LET i == CHOOSE j \in hyphens : \A k \in hyphens : j <= k
             IN  <<SubSeq(s, 1, i - 1)>> \o Split(SubSeq(s, i + 1, Len(s)))

\* variant: the two pieces are joined again as they were written
InitLanguageAsWritten(config_core) ==
    LET tag == ConfigGet(config_core, "lang", DefaultLang)
        langs == Split(tag)
    IN  IF Len(langs) = 2
          THEN langs[1] \o <<"-">> \o langs[2]
          ELSE tag

\* STT.init_language(config_core)
InitLanguage(config_core) ==
    LET tag == ConfigGet(config_core, "lang", DefaultLang)
        langs == Split(tag)
    IN  IF Len(langs) = 2
          THEN Lower(langs[1]) \o <<"-">> \o Upper(langs[2])
          ELSE tag

\* ---------------------------------------------------------------- Init
NoBackend == [cls |-> None, cred |-> None, url |-> None, lang |-> None,
              configured |-> None]
NoCall == [language |-> None, outs |-> <<>>, inner |-> NoOut, out |-> NoOut,
           requests |-> <<>>]
NoLang == [calls |-> 0, arg |-> <<>>, out |-> <<>>]

FactoryIdle == [module |-> Absent, cfgRaises |-> FALSE, ctorRaises |-> FALSE,
                defaultRaises |-> FALSE]
NoResult == [done |-> FALSE, backend |-> None, exc |-> NoExc, caught |-> NoExc,
             attempts |-> <<>>, loads |-> <<>>]

\* StreamingSTT.__init__: no stream, no queue attribute, no worker
InitWorkers ==
    /\ stream = NoStream
    /\ queue = Unset
    /\ queues = [q \in QueueIds |-> <<>>]
    /\ nextQ = 0
    /\ nextW = 0
    /\ alive = [w \in Workers |-> FALSE]
    /\ outcome = [w \in Workers |-> "new"]
    /\ wqueue = [w \in Workers |-> NoQueue]
    /\ wlanguage = [w \in Workers |-> None]
    /\ text = [w \in Workers |-> None]
    /\ genDone = [w \in Workers |-> FALSE]
    /\ nresp = [w \in Workers |-> 0]
    /\ yielded = [w \in Workers |-> <<>>]
    /\ seen = [w \in Workers |-> <<>>]
    /\ sent = [w \in Workers |-> <<>>]
    /\ pc = "idle"
    /\ op = None
    /\ reqLang = None
    /\ ret = Returned(None, None)
    /\ nstarts = 0
    /\ hadStream = FALSE
    /\ lastStopped = NoStream
    /\ stopRet = None

InitStream ==
    /\ kind \in Kinds
    /\ lang \in Langs
    /\ track = FALSE
    /\ InitWorkers

\* nothing is called on the factory, on a synchronous backend or on
\* init_language
IdleFactory == fenv = FactoryIdle /\ fres = NoResult
IdleExec == xb = NoBackend /\ xcalls = 0 /\ xlast = NoCall
IdleLang == ltag = <<>> /\ lres = NoLang

Init ==
    /\ InitStream
    /\ IdleFactory
    /\ IdleExec
    /\ IdleLang

\* ------------------------------------------------ StreamingSTT (caller)
\* variant: stream_stop without the `if self.stream is not None` test
StopEnterUnchecked(after) ==
    /\ hadStream' = (stream # NoStream)
    /\ IF stream # NoStream
         THEN /\ queues' = [queues EXCEPT ![queue] = Append(@, None)]
              /\ pc' = "stop_join"
              /\ UNCHANGED ret
         ELSE /\ pc' = "idle"
              /\ ret' = Raised("stream_stop", "AttributeError")
              /\ queues' = IF queue \in QueueIds
                             THEN [queues EXCEPT ![queue] = Append(@, None)]
                             ELSE queues

\* stream_stop(), first half: test self.stream, put the sentinel.
\* `after` is where the caller goes when no stream is active.
StopEnter(after) ==
    /\ hadStream' = (stream # NoStream)
    /\ IF stream # NoStream
         THEN /\ queues' = [queues EXCEPT ![queue] = QueuePut(@, None)]
              /\ pc' = "stop_join"
              /\ UNCHANGED ret
         ELSE /\ pc' = after
              /\ ret' = IF after = "idle" THEN Returned(op', None) ELSE ret
              /\ UNCHANGED queues

\* stream_stop() called by the caller
StreamStop ==
    /\ pc = "idle"
    /\ op' = "stream_stop"
    /\ StopEnter("idle")
    /\ UNCHANGED <<kind, lang, track, stream, queue, nextQ, nextW, workerVars,
                   reqLang, nstarts, lastStopped, stopRet, sent, otherVars>>

\* variant: execute hands out the text so far and leaves the stream running
StreamExecuteNoStop(audio, language) ==
    /\ pc = "idle"
    /\ op' = "execute"
    /\ hadStream' = (stream # NoStream)
    /\ ret' = Returned("execute",
                       IF stream # NoStream THEN text[stream] ELSE None)
    /\ UNCHANGED <<kind, lang, track, stream, queue, queues, nextQ, nextW,
                   workerVars, pc, reqLang, nstarts, lastStopped, stopRet,
                   sent, otherVars>>

\* StreamingSTT.execute(audio, language): return self.stream_stop()
StreamExecute(audio, language) ==
    /\ pc = "idle"
    /\ op' = "execute"
    /\ StopEnter("idle")
    /\ UNCHANGED <<kind, lang, track, stream, queue, nextQ, nextW, workerVars,
                   reqLang, nstarts, lastStopped, stopRet, sent, otherVars>>

\* variant: stream_start that does not stop the active stream first
StreamStartNoStop(language) ==
    /\ pc = "idle"
    /\ nstarts < MaxStreams
    /\ nstarts' = nstarts + 1
    /\ op' = "stream_start"
    /\ reqLang' = language
    /\ hadStream' = (stream # NoStream)
    /\ pc' = "start_create"
    /\ UNCHANGED <<kind, lang, track, stream, queue, queues, nextQ, nextW,
                   workerVars, ret, lastStopped, stopRet, sent, otherVars>>

\* stream_start(language): begins with self.stream_stop()
StreamStart(language) ==
    /\ pc = "idle"
    /\ nstarts < MaxStreams
    /\ nstarts' = nstarts + 1
    /\ op' = "stream_start"
    /\ reqLang' = language
    /\ StopEnter("start_create")
    /\ UNCHANGED <<kind, lang, track, stream, queue, nextQ, nextW, workerVars,
                   lastStopped, stopRet, sent, otherVars>>

\* variant: stream_stop keeps the queue
QueueAfterStopKept == queue

\* stream_stop(): self.queue = None
QueueAfterStop == NoQueue

\* stream_stop(), second half: join the worker, read its text, drop the
\* worker and the queue, return the text
StopJoin ==
    /\ pc = "stop_join"
    /\ Joined(stream)
    /\ stopRet' = text[stream]
    /\ lastStopped' = stream
    /\ stream' = NoStream
    /\ queue' = QueueAfterStop
    /\ IF op # "stream_start"
         THEN /\ pc' = "idle"
              /\ ret' = Returned(op, text[stream])
         ELSE /\ pc' = "start_create"
              /\ UNCHANGED ret
    /\ UNCHANGED <<kind, lang, track, queues, nextQ, nextW, workerVars, op,
                   reqLang, nstarts, hadStream, sent, otherVars>>

\* the language create_streaming_thread hands to the worker: self.lang
\* (GoogleCloudStreamingSTT passes self.language, which is self.lang unless
\* the module's configuration has a 'lang' of its own); the language argument
\* of stream_start is not passed on
ThreadLanguage == lang

\* A StreamThread that has ended and that self.stream no longer refers to is
\* garbage, and so is a Queue that neither the backend nor a live worker
\* holds: when stream_start rebinds self.queue and self.stream, their records
\* (and the history kept about them) are dropped.
Kept(w) == alive[w]
KeptQueue(q) == \E w \in Workers : Kept(w) /\ wqueue[w] = q
Renew(f, fresh, w, v) ==
    [x \in Workers |-> IF x = w THEN v ELSE IF Kept(x) THEN f[x] ELSE fresh]

\* variant: create_streaming_thread reuses the queue of the stream before
NewQueueReused == IF queue \in QueueIds THEN queue
                  ELSE IF lastStopped # NoStream THEN wqueue[lastStopped]
                  ELSE nextQ + 2

\* the Queue() of create_streaming_thread: the second one stream_start makes
NewQueue == nextQ + 2

\* variant: the new worker starts with the text of the stream before
InitialTextCarried == stopRet

\* StreamThread.__init__: self.text = None
InitialText == None

\* variant: self.stream is bound although the constructor raised
StreamOnFailureBound == nextW + 1

\* self.stream when create_streaming_thread() raises: the assignment of
\* stream_start is not reached, it stays what stream_stop() left
StreamOnFailure == stream

\* stream_start(), after stream_stop(): self.queue = Queue(), then
\* create_streaming_thread() (which assigns self.queue = Queue() again and
\* constructs the worker on it), then self.stream.start()
StartCreate ==
    /\ pc = "start_create"
    /\ nextQ' = nextQ + 2
    /\ queue' = NewQueue
    /\ pc' = "idle"
    /\ lastStopped' = NoStream
    /\ stopRet' = None
    /\ queues' = [q \in QueueIds |->
                    IF KeptQueue(q) \/ q = NewQueue THEN queues[q] ELSE <<>>]
    /\ LET w == IF CreateRaises THEN NoStream ELSE nextW + 1 IN
         /\ nextW' = IF CreateRaises THEN nextW ELSE w
         /\ stream' = IF CreateRaises THEN StreamOnFailure ELSE w
         /\ ret' = IF CreateRaises THEN Raised("stream_start", "ValueError")
                                   ELSE Returned("stream_start", None)
         /\ wqueue' = Renew(wqueue, NoQueue, w, NewQueue)
         /\ wlanguage' = Renew(wlanguage, None, w, ThreadLanguage)
         /\ text' = Renew(text, None, w, InitialText)
         /\ seen' = Renew(seen, <<>>, w, <<>>)
         /\ alive' = Renew(alive, FALSE, w, TRUE)
         /\ outcome' = Renew(outcome, "new", w, "running")
         /\ genDone' = Renew(genDone, FALSE, w, FALSE)
         /\ nresp' = Renew(nresp, 0, w, 0)
         /\ yielded' = Renew(yielded, <<>>, w, <<>>)
         /\ sent' = Renew(sent, <<>>, w, <<>>)
    /\ UNCHANGED <<kind, lang, track, op, reqLang, nstarts, hadStream,
                   otherVars>>

\* stream_data(data): self.queue.put(data)
StreamData(data) ==
    /\ pc = "idle"
    /\ op' = "stream_data"
    /\ IF queue \in {Unset, NoQueue}
         THEN /\ ret' = Raised("stream_data", "AttributeError")
              /\ UNCHANGED <<queues, sent>>
         ELSE /\ IF stream # NoStream
                   THEN Len(sent[stream]) < MaxChunks
                   ELSE Len(queues[queue]) < MaxChunks
              /\ queues' = [queues EXCEPT ![queue] = QueuePut(@, data)]
              /\ sent' = IF stream # NoStream
                           THEN [sent EXCEPT ![stream] = Append(@, data)]
                           ELSE sent
              /\ ret' = Returned("stream_data", None)
    /\ UNCHANGED <<kind, lang, track, stream, queue, nextQ, nextW, workerVars,
                   pc, reqLang, nstarts, hadStream, lastStopped, stopRet,
                   otherVars>>

\* ------------------------------------------------- StreamThread (worker)
\* the worker thread is inside run() -> handle_audio_stream(...)
Running(w) == alive[w] /\ outcome[w] = "running"

\* one next() of _get_data(): d = self.queue.get() blocks while the queue is
\* empty; None ends the generator, anything else is yielded
GenNext(w) ==
    /\ Running(w)
    /\ ~genDone[w]
    /\ queues[wqueue[w]] # <<>>
    /\ LET d == Head(queues[wqueue[w]]) IN
         /\ queues' = [queues EXCEPT ![wqueue[w]] = Tail(@)]
         /\ IF d = None
              THEN /\ genDone' = [genDone EXCEPT ![w] = TRUE]
                   /\ UNCHANGED yielded
              ELSE /\ yielded' = [yielded EXCEPT ![w] = Append(@, d)]
                   /\ UNCHANGED genDone
    /\ UNCHANGED <<kind, lang, track, stream, queue, nextQ, nextW, alive,
                   outcome, wqueue, wlanguage, text, nresp, seen, callerVars,
                   otherVars>>

\* responses explored per stream; one more where the history is recorded
ResponseLimit == IF track THEN MaxResponses + 1 ELSE MaxResponses

\* variant: every non-empty result is recorded, interim ones too
HandleResponseAnyResult(w, res) ==
    /\ Running(w)
    /\ nresp[w] < ResponseLimit
    /\ nresp' = [nresp EXCEPT ![w] = @ + 1]
    /\ text' = IF res.results
                 THEN [text EXCEPT ![w] = res.transcript]
                 ELSE text
    /\ seen' = IF track THEN [seen EXCEPT ![w] = Append(@, res)] ELSE seen
    /\ UNCHANGED <<backendVars, alive, outcome, wqueue, wlanguage, genDone,
                   yielded, callerVars, otherVars>>

\* GoogleStreamThread.handle_audio_stream, one turn of `for res in responses`
HandleResponse(w, res) ==
    /\ Running(w)
    /\ nresp[w] < ResponseLimit
    /\ nresp' = [nresp EXCEPT ![w] = @ + 1]
    /\ text' = IF res.results /\ res.is_final
                 THEN [text EXCEPT ![w] = res.transcript]
                 ELSE text
    /\ seen' = IF track THEN [seen EXCEPT ![w] = Append(@, res)] ELSE seen
    /\ UNCHANGED <<backendVars, alive, outcome, wqueue, wlanguage, genDone,
                   yielded, callerVars, otherVars>>

\* handle_audio_stream returns (the responses ended): run() returns and the
\* thread ends
TransportReturn(w) ==
    /\ Running(w)
    /\ alive' = [alive EXCEPT ![w] = FALSE]
    /\ outcome' = [outcome EXCEPT ![w] = "returned"]
    /\ UNCHANGED <<backendVars, wqueue, wlanguage, text, genDone, nresp,
                   yielded, seen, callerVars, otherVars>>

\* variant: a worker that swallows the error and never ends
TransportRaiseHangs(w) ==
    /\ Running(w)
    /\ outcome' = [outcome EXCEPT ![w] = "raised"]
    /\ UNCHANGED <<backendVars, alive, wqueue, wlanguage, text, genDone, nresp,
                   yielded, seen, callerVars, otherVars>>

\* handle_audio_stream raises: run() does not catch, the thread ends
TransportRaise(w) ==
    /\ Running(w)
    /\ alive' = [alive EXCEPT ![w] = FALSE]
    /\ outcome' = [outcome EXCEPT ![w] = "raised"]
    /\ UNCHANGED <<backendVars, wqueue, wlanguage, text, genDone, nresp,
                   yielded, seen, callerVars, otherVars>>

\* ---------------------------------------------------------------- Next
Next ==
    \/ \E language \in Langs \cup {None} : StreamStart(language)
    \/ \E data \in Chunks \cup {None} : StreamData(data)
    \/ StreamStop
    \/ StopJoin
    \/ StartCreate
    \/ \E w \in Workers : GenNext(w)
    \/ \E w \in Workers, res \in Responses : HandleResponse(w, res)
    \/ \E w \in Workers : TransportReturn(w)
    \/ \E w \in Workers : TransportRaise(w)

Spec == Init /\ [][Next]_vars

\* the thread scheduler runs every thread that can run: the caller leaves
\* join() once the worker has ended and goes on inside stream_start, the
\* worker dequeues what is in its queue, and a transport whose request
\* stream has ended returns
FairSpec ==
    /\ Spec
    /\ WF_vars(StopJoin)
    /\ WF_vars(StartCreate)
    /\ \A w \in Workers : WF_vars(GenNext(w))
    /\ \A w \in Workers : WF_vars(genDone[w] /\ TransportReturn(w))

\* the caller's thread runs and a transport whose request stream has ended
\* returns, but nothing is assumed about when, or whether, a worker dequeues:
\* what is guaranteed here is guaranteed without any chunk being consumed.
\* The backend is one whose worker can always be created.
InitCaller ==
    /\ Init
    /\ kind = "google_cloud_streaming"
    /\ lang = "en-US"

FairCallerSpec ==
    /\ InitCaller /\ [][Next]_vars
    /\ WF_vars(StopJoin)
    /\ WF_vars(StartCreate)
    /\ \A w \in Workers : WF_vars(genDone[w] /\ TransportReturn(w))

\* ------------------------- the streaming backend, with execute() called
\* a caller that also calls execute(audio, language) on the streaming backend
NextStreamExecute ==
    \/ Next
    \/ \E audio \in Chunks, language \in Langs \cup {None} :
           StreamExecute(audio, language)

SpecStreamExecute == Init /\ [][NextStreamExecute]_vars

\* ---------------------------------- the streaming backend, with history
\* the same backend and worker with every response a worker is given recorded
\* in seen. The caller starts and stops streams and submits no audio: what the
\* transport answers is not a function of the audio in this model, and the
\* histories stay small enough to explore three responses per stream.
InitHistory ==
    /\ kind = "google_cloud_streaming"
    /\ lang = "en-US"
    /\ track = TRUE
    /\ InitWorkers
    /\ IdleFactory
    /\ IdleExec
    /\ IdleLang

NextHistory ==
    \/ \E language \in Langs \cup {None} : StreamStart(language)
    \/ StreamStop
    \/ StopJoin
    \/ StartCreate
    \/ \E w \in Workers : GenNext(w)
    \/ \E w \in Workers, res \in Responses : HandleResponse(w, res)
    \/ \E w \in Workers : TransportReturn(w)
    \/ \E w \in Workers : TransportRaise(w)

SpecHistory == InitHistory /\ [][NextHistory]_vars

\* ------------------------------------------------ STTFactory as a machine
InitFactory ==
    /\ InitStream
    /\ IdleExec
    /\ IdleLang
    /\ fenv \in [module : Modules, cfgRaises : BOOLEAN, ctorRaises : BOOLEAN,
                 defaultRaises : BOOLEAN]
    /\ fres = NoResult

\* one call of STTFactory.create()
Create ==
    /\ ~fres.done
    /\ fres' = FactoryCreate(fenv)
    /\ UNCHANGED <<backendVars, workerVars, callerVars, fenv, execVars,
                   langVars>>

NextFactory == Create

SpecFactory == InitFactory /\ [][NextFactory]_vars

\* ------------------------------------- synchronous backends as a machine
InitExec ==
    /\ InitStream
    /\ kind = "google_cloud_streaming"
    /\ lang = "en-US"
    /\ IdleFactory
    /\ IdleLang
    /\ xb \in {[cls |-> c, cred |-> k, url |-> u, lang |-> l, configured |-> l] :
                 c \in ExecClasses, k \in Credentials, u \in Urls, l \in XLangs}
    /\ xcalls = 0
    /\ xlast = NoCall

\* one call of execute(audio, language) on the backend
Execute(language, outs) ==
    /\ xcalls < MaxCalls
    /\ xcalls' = xcalls + 1
    /\ LET r == ExecuteOf(xb, language, outs) IN
         /\ xb' = [xb EXCEPT !.lang = r.lang]
         /\ xlast' = [language |-> language, outs |-> outs, inner |-> r.inner,
                      out |-> r.out, requests |-> r.requests]
    /\ UNCHANGED <<backendVars, workerVars, callerVars, factoryVars, langVars>>

NextExec ==
    \E language \in XLangs \cup {None, ""}, outs \in [1..2 -> Outcomes] :
        Execute(language, outs)

SpecExec == InitExec /\ [][NextExec]_vars

\* ------------------------------------------- init_language as a machine
InitLang ==
    /\ InitStream
    /\ kind = "google_cloud_streaming"
    /\ lang = "en-US"
    /\ IdleFactory
    /\ IdleExec
    /\ ltag \in LangConfigs
    /\ lres = NoLang

\* one call of init_language: the first on the configuration, each later one
\* on a configuration whose "lang" is what the call before returned
NormalizeLanguage ==
    /\ lres.calls < MaxCalls
    /\ LET cfg == IF lres.calls = 0 THEN ltag
                                     ELSE [k \in {"lang"} |-> lres.out]
       IN  lres' = [calls |-> lres.calls + 1,
                    arg |-> ConfigGet(cfg, "lang", DefaultLang),
                    out |-> InitLanguage(cfg)]
    /\ UNCHANGED <<backendVars, workerVars, callerVars, factoryVars, execVars,
                   ltag>>

NextLang == NormalizeLanguage

SpecLang == InitLang /\ [][NextLang]_vars

TypeOK ==
    /\ stream \in {NoStream} \cup Workers
    /\ queue \in {Unset, NoQueue} \cup QueueIds
    /\ pc \in {"idle", "stop_join", "start_create"}
    /\ \A w \in Workers : text[w] \in Hyps \cup {None}

\* ================================================================ claims
Live == {w \in Workers : alive[w]}

\* the sentinel has been put on worker w's queue
SentinelPut(w) ==
    genDone[w] \/ \E i \in 1..Len(queues[wqueue[w]]) : queues[wqueue[w]][i] = None

\* C1: for a stream that is given audio chunks c1..cn, what _get_data()
\* yields is at every moment a prefix of c1..cn, and once the generator has
\* stopped on the sentinel it has yielded exactly c1..cn, in order, once each.
C1_ChunksInOrder ==
    \A w \in Workers :
        /\ AllChunks(sent[w]) => IsPrefix(yielded[w], sent[w])
        /\ (AllChunks(sent[w]) /\ genDone[w]) => yielded[w] = sent[w]

C1_Witness ==
    \E w \in Workers :
        genDone[w] /\ sent[w] = <<"b", "a">> /\ yielded[w] = sent[w]

\* C2: at most one worker thread is alive, a live worker is the one
\* self.stream refers to, and when stream_start gets to creating the new
\* worker the sentinel was put and no worker is alive any more.
C2_OneLiveWorker ==
    /\ Cardinality(Live) <= 1
    /\ \A w \in Live : stream = w /\ queue = wqueue[w]
    /\ \A v, w \in Live : v # w => wqueue[v] # wqueue[w]
    /\ pc = "start_create" =>
          /\ Live = {}
          /\ (hadStream => SentinelPut(lastStopped))

C2_Witness ==
    /\ pc = "start_create" /\ op = "stream_start" /\ hadStream
    /\ outcome[lastStopped] = "returned" /\ genDone[lastStopped]

\* C3: a worker whose transport has raised is no longer alive, and a
\* stream_stop (or the stop inside stream_start) that waits for such a worker
\* gets past the join.
C3_ErrorNeverHangsStop ==
    /\ [](\A w \in Workers : outcome[w] = "raised" => ~alive[w])
    /\ ((pc = "stop_join" /\ outcome[stream] = "raised") ~> (pc # "stop_join"))

C3_Witness ==
    /\ pc = "idle" /\ op = "stream_stop" /\ hadStream
    /\ outcome[lastStopped] = "raised" /\ yielded[lastStopped] # <<>>
    /\ ~genDone[lastStopped]

\* C4: when the worker's transport raised, the stream_stop that collects
\* that worker returns None and raises nothing.
C4_ErrorGivesNoResult ==
    (pc = "idle" /\ op = "stream_stop" /\ hadStream
        /\ outcome[lastStopped] = "raised")
    => ret = Returned("stream_stop", None)

\* C5: a stream_stop that finds no active stream returns None without an
\* error, puts nothing on any queue and leaves self.stream None.
C5_StopWhenIdle ==
    [][(StreamStop /\ stream = NoStream) =>
          /\ ret' = Returned("stream_stop", None)
          /\ pc' = "idle"
          /\ queues' = queues
          /\ stream' = NoStream
          /\ queue' = queue
          /\ alive' = alive]_vars

C5_Witness ==
    /\ pc = "idle" /\ op = "stream_stop" /\ ~hadStream
    /\ ret = Returned("stream_stop", None)
    /\ nextW > 0 /\ stream = NoStream

\* C6: stream_start on an active stream first gets the backend to the state
\* stream_stop leaves (sentinel put on the first worker's queue, that worker
\* ended, stream and queue None), then leaves exactly one fresh worker on a
\* fresh empty queue, and the call does not wait forever.
C6_RestartIsStopThenStart ==
    /\ []((pc = "start_create" /\ hadStream) =>
            /\ stream = NoStream /\ queue = NoQueue /\ Live = {}
            /\ SentinelPut(lastStopped))
    /\ [][(StartCreate /\ ~CreateRaises) =>
            /\ stream' = nextW + 1
            /\ {w \in Workers : alive'[w]} = {stream'}
            /\ queue' = wqueue'[stream'] /\ queue' > nextQ
            /\ queues'[queue'] = <<>>
            /\ text'[stream'] = None]_vars
    /\ ((op = "stream_start" /\ pc = "stop_join") ~> (pc = "idle"))

C6_Witness ==
    /\ pc = "idle" /\ op = "stream_start" /\ hadStream
    /\ ret = Returned("stream_start", None)
    /\ stream = 2 /\ alive[2]

\* C7: after a stream_stop that found an active stream, self.stream and
\* self.queue are None, however the worker ended.
C7_StopReleases ==
    (op = "stream_stop" /\ pc = "idle" /\ hadStream) =>
        stream = NoStream /\ queue = NoQueue

C7_Witness ==
    /\ op = "stream_stop" /\ pc = "idle" /\ hadStream
    /\ outcome[lastStopped] = "raised" /\ stream = NoStream

\* C8: a worker's text changes only in a step of that worker's
\* handle_audio_stream, and the worker stream_stop has read text from is not
\* alive and still has the text that was read.
C8_ReadAfterJoin ==
    /\ [](lastStopped # NoStream =>
            ~alive[lastStopped] /\ stopRet = text[lastStopped])
    /\ []((pc = "idle" /\ op = "stream_stop" /\ hadStream) =>
            ret = Returned("stream_stop", text[lastStopped]))
    /\ [][\A w \in Workers :
            (outcome[w] # "new" /\ outcome'[w] # "new" /\ text'[w] # text[w])
            => (Running(w) /\ \E res \in Responses : HandleResponse(w, res))]_vars

C8_Witness ==
    /\ pc = "idle" /\ op = "stream_stop" /\ hadStream
    /\ ret.val = "h2" /\ outcome[lastStopped] = "returned"

\* the configured module is not the default, its configuration was read,
\* and its lookup or its construction raises
ConfiguredFails(env) ==
    /\ ~env.cfgRaises
    /\ ConfiguredModule(env) # "mycroft"
    /\ \/ ConfiguredModule(env) \notin (DOMAIN CLASSES \cup DOMAIN Plugins)
       \/ env.ctorRaises

\* C9 as stated: whenever the configured non-default module fails, create()
\* returns a MycroftSTT and raises nothing.
C9_AlwaysReturnsDefault ==
    (fres.done /\ ConfiguredFails(fenv)) =>
        fres.backend = "MycroftSTT" /\ fres.exc = NoExc

\* C9 (amended): whenever the configured non-default module fails, create()
\* makes one attempt to construct MycroftSTT as its last step; it returns
\* that backend when the construction succeeds, and raises the default's own
\* construction error (not the configured module's) when it does not.
C9_FallsBackToDefault ==
    (fres.done /\ ConfiguredFails(fenv)) =>
        /\ fres.caught # NoExc
        /\ fres.attempts # <<>>
        /\ fres.attempts[Len(fres.attempts)] = "MycroftSTT"
        /\ Cardinality({i \in 1..Len(fres.attempts) :
                            fres.attempts[i] = "MycroftSTT"}) = 1
        /\ IF fenv.defaultRaises
             THEN /\ fres.backend = None
                  /\ fres.exc = Exc("ConstructionError", Len(fres.attempts))
             ELSE /\ fres.backend = "MycroftSTT"
                  /\ fres.exc = NoExc

C9_Witness ==
    /\ fres.done /\ fenv.module = "does-not-exist" /\ ~fenv.cfgRaises
    /\ fres.caught = Exc("PluginNotFound", 0)
    /\ fres.backend = "MycroftSTT" /\ fres.exc = NoExc

\* C10: when the configured module is 'mycroft' (named, or by default) and
\* constructing it raises, create() raises that same exception after a single
\* construction attempt.
C10_DefaultFailureIsFatal ==
    (fres.done /\ ~fenv.cfgRaises /\ ConfiguredModule(fenv) = "mycroft"
        /\ fenv.defaultRaises) =>
        /\ fres.backend = None
        /\ fres.attempts = <<"MycroftSTT">>
        /\ fres.caught = Exc("ConstructionError", 1)
        /\ fres.exc = fres.caught

C10_Witness ==
    /\ fres.done /\ fenv.module = Absent /\ ~fenv.cfgRaises
    /\ fenv.defaultRaises
    /\ fres.exc = Exc("ConstructionError", 1)

\* the classes whose execute() carries @requires_pairing
PairedClasses == {"MycroftSTT", "MycroftDeepSpeechSTT"}

\* C11: a wrapped execute() that raises an HTTPError with status 401 returns
\* 'pair my device'; one that raises an HTTPError with another status, or
\* another exception, raises that same exception; one that returns, returns
\* the same value.
C11_PairingOn401Only ==
    (xcalls > 0 /\ xb.cls \in PairedClasses) =>
        IF xlast.inner = XRaise("HTTPError", 401)
          THEN xlast.out = XReturn(PairingPhrase)
          ELSE xlast.out = xlast.inner

C11_Witness ==
    /\ xcalls > 0 /\ xb.cls = "MycroftDeepSpeechSTT"
    /\ xlast.inner = XRaise("HTTPError", 401)
    /\ xlast.out = XReturn("pair my device")

C13_MissingTokenRejected ==
    (xcalls > 0 /\ xb.cls \in TokenClasses /\ xb.cred \in {Missing, ""}) =>
        xlast.out.kind = "raise" /\ xlast.requests = <<>>

\* C14: init_language gives every two-part tag a primary subtag without
\* upper-case letters and a region subtag without lower-case letters, changes
\* nothing but letter case, gives the same result whatever the case of the
\* region was written in, and applied to its own result returns it unchanged
\* (for every input, two-part or not)
TwoPart(t) == Len(Split(t)) = 2
WithRegion(t, region) == Split(t)[1] \o <<"-">> \o region
C14_NormalizesCase ==
    lres.calls > 0 =>
        /\ TwoPart(lres.arg) =>
             /\ TwoPart(lres.out)
             /\ Split(lres.out)[1] = Lower(Split(lres.arg)[1])
             /\ Split(lres.out)[2] = Upper(Split(lres.arg)[2])
             /\ Len(lres.out) = Len(lres.arg)
             /\ \A i \in 1..Len(lres.out) :
                    LowerChar(lres.out[i]) = LowerChar(lres.arg[i])
             /\ LET yy == Split(lres.arg)[2]
                    cfg(r) == [k \in {"lang"} |-> WithRegion(lres.arg, r)]
                IN  /\ InitLanguage(cfg(Lower(yy))) = lres.out
                    /\ InitLanguage(cfg(Upper(yy))) = lres.out
                    /\ lres.out = WithRegion(Lower(lres.arg), Upper(yy))
        /\ lres.calls > 1 => lres.out = lres.arg

\* a tag written "E-n" came back as "e-N", and a second call returned the same
C14_Witness ==
    /\ lres.calls = 2
    /\ ltag = [k \in {"lang"} |-> <<"E", "-", "n">>]
    /\ lres.arg = <<"e", "-", "N">>
    /\ lres.out = <<"e", "-", "N">>

\* C15: create() looks the configured module name up in CLASSES first: when
\* the configuration was read and names a module, load_stt_plugin is called
\* (once, with that name) exactly when the name is not a key of CLASSES, and
\* for a key of CLASSES the first class instantiated is the table's
NamesModule(env) == ~env.cfgRaises /\ env.module # NotAString
C15_TableBeforeLoader ==
    (fres.done /\ NamesModule(fenv)) =>
        LET module == ConfiguredModule(fenv) IN
          /\ fres.loads # <<>> <=> module \notin DOMAIN CLASSES
          /\ fres.loads \in {<<>>, <<module>>}
          /\ module \in DOMAIN CLASSES =>
                 /\ fres.attempts # <<>>
                 /\ fres.attempts[1] = CLASSES[module]
                 /\ fres.exc = NoExc /\ fres.caught = NoExc =>
                        fres.backend = CLASSES[module]

\* a plugin name went to the loader and the plugin's class was built; the
\* companion is the built-in name that never reached the loader
C15_Witness ==
    /\ fres.done
    /\ fenv.module = "my_plugin"
    /\ fres.loads = <<"my_plugin">>
    /\ fres.backend = "MyPluginSTT"

\* C16: when stream_start(language) has returned, the new worker's language
\* is the language argument if one was given, and the backend's configured
\* language otherwise
C16_WorkerBoundToOverride ==
    (pc = "idle" /\ op = "stream_start" /\ stream # NoStream) =>
        wlanguage[stream] = (IF reqLang # None THEN reqLang ELSE lang)

\* the transcript of the last response of s that has a result, interim or
\* final; None when there is none
RECURSIVE LastNonEmpty(_)
LastNonEmpty(s) ==
    IF s = <<>> THEN None
    ELSE IF s[Len(s)].results THEN s[Len(s)].transcript
    ELSE LastNonEmpty(SubSeq(s, 1, Len(s) - 1))

\* the transcript of the last response of s whose result is final
RECURSIVE LastFinal(_)
LastFinal(s) ==
    IF s = <<>> THEN None
    ELSE IF s[Len(s)].results /\ s[Len(s)].is_final THEN s[Len(s)].transcript
    ELSE LastFinal(SubSeq(s, 1, Len(s) - 1))

Finished(w) == outcome[w] = "returned"

C18_OnlyStopEndsStream ==
    \A w \in Workers :
        genDone[w] =>
            /\ yielded[w] = sent[w]
            /\ w = stream => pc = "stop_join"

\* create() built the default backend last, and that failed
DefaultFailed == /\ fres.attempts # <<>>
                 /\ fres.attempts[Len(fres.attempts)] = "MycroftSTT"
                 /\ fenv.defaultRaises

\* C19: create() raises only when constructing MycroftSTT failed, and in every
\* other case returns a backend
C19_RaisesOnlyIfDefaultFails ==
    fres.done =>
        /\ fres.exc # NoExc => DefaultFailed
        /\ ~DefaultFailed => fres.backend # None

\* C20: every stream_start that succeeds leaves a worker with no text, on an
\* empty queue no other live worker reads, with nothing yielded; a worker is
\* only ever given what stream_data was given for its own stream, has no text
\* unless a response of its own gave it one, and stream_stop returns the text
\* of the worker it stopped
C20_CyclesAreIndependent ==
    /\ [][(StartCreate /\ ~CreateRaises) =>
            /\ text'[stream'] = None
            /\ nresp'[stream'] = 0
            /\ queues'[wqueue'[stream']] = <<>>
            /\ yielded'[stream'] = <<>> /\ sent'[stream'] = <<>>
            /\ ~genDone'[stream']
            /\ \A w \in Workers \ {stream'} :
                   alive'[w] => wqueue'[w] # wqueue'[stream']]_vars
    /\ [](\A w \in Workers :
            /\ IsPrefix(yielded[w], sent[w])
            /\ nresp[w] = 0 => text[w] = None)
    /\ []((pc = "idle" /\ op = "stream_stop" /\ hadStream) =>
            ret = Returned("stream_stop", text[lastStopped]))

\* the second cycle has ended: its worker was given "a" only and stream_stop
\* returned the transcript that worker was given
C20_Witness ==
    /\ pc = "idle" /\ op = "stream_stop" /\ hadStream /\ lastStopped = 2
    /\ sent[2] = <<"a">> /\ yielded[2] = <<"a">>
    /\ nresp[2] = 1
    /\ ret = Returned("stream_stop", "h1")

WaitsInJoin == pc = "stop_join" /\ alive[stream]

Reads(w, q) == alive[w] /\ ~genDone[w] /\ wqueue[w] = q

\* this step is a stream_data that put a chunk on self.queue
PutsChunk ==
    /\ op' = "stream_data" /\ queue \in QueueIds
    /\ Len(queues'[queue]) = Len(queues[queue]) + 1
    /\ queues'[queue][Len(queues'[queue])] \in Chunks

\* C22: while a stream is active self.queue is the queue its worker was
\* constructed on, and every chunk stream_data puts goes on a queue that some
\* worker is reading
C22_QueueHasReader ==
    /\ [](stream # NoStream => queue = wqueue[stream])
    /\ [][PutsChunk => \E w \in Workers : Reads(w, queue)]_vars

\* C23: a stream_data called while no stream is active raises, puts nothing
\* on any queue and starts no worker
C23_DataWithoutStreamFails ==
    [][((\E data \in Chunks \cup {None} : StreamData(data))
            /\ stream = NoStream) =>
          /\ ret'.op = "stream_data" /\ ret'.exc # None
          /\ queues' = queues
          /\ nextW' = nextW /\ alive' = alive]_vars

\* the state only a failed stream_start leaves: no stream, but a queue
AfterFailedStart == pc = "idle" /\ stream = NoStream /\ queue \in QueueIds

C25_LastAttemptDecides ==
    (xcalls > 0 /\ xb.cls = "MycroftSTT") =>
        LET n == Len(xlast.requests)
            last == xlast.outs[n]
        IN  /\ n = (IF xlast.outs[1] = "ok" THEN 1 ELSE 2)
            /\ xlast.requests[1].rate = "16000"
            /\ n = 2 => /\ xlast.requests[2].rate = "native"
                        /\ xlast.requests[2].lang = xlast.requests[1].lang
            /\ xlast.out = XReturn(PairingPhrase) <=> last = "http401"
            /\ last = "ok" => xlast.out = XReturn(Transcript)
            /\ last \in {"http500", "error"} => xlast.out = ApiStt(last)

\* a 401 on the first attempt, then a second attempt that succeeded: the
\* transcript is returned, not the pairing phrase
C25_Witness ==
    /\ xcalls > 0 /\ xb.cls = "MycroftSTT"
    /\ xlast.outs = <<"http401", "ok">>
    /\ Len(xlast.requests) = 2
    /\ xlast.out = XReturn(Transcript)

\* an IBMSTT whose execute() raises on its credential or url test, before it
\* looks at the language, on every call
NeverResolves(b) == b.cls = "IBMSTT" /\ (TokenOf(b.cred) = "" \/ b.url = "")

\* C26: on a backend that assigns self.lang in execute(), a call with a
\* non-empty language stores it (also when the call then rejects it as
\* unsupported), a call without one leaves the stored language as it is, and
\* every request carries the language given or else the stored one; hence
\* calls without a language use the last one given, not the configured one.
\* MycroftDeepSpeechSTT.execute never changes the stored language.
C26_OverridePersists ==
    [][(xcalls' = xcalls + 1) =>
          LET L == xlast'.language
              given == L \notin {None, ""}
              reqs == xlast'.requests
          IN  IF xb.cls = "MycroftDeepSpeechSTT"
                THEN xb'.lang = xb.lang /\ xb'.lang = xb.configured
                ELSE /\ \A i \in 1..Len(reqs) :
                            reqs[i].lang = (IF given THEN L ELSE xb.lang)
                     /\ ~given => xb'.lang = xb.lang
                     /\ (given /\ ~NeverResolves(xb)) => xb'.lang = L]_vars

\* an IBMSTT configured for en-US was given ru-RU, which it rejected; the
\* next call, without a language, was rejected for ru-RU again
C26_Witness ==
    /\ xcalls = 2 /\ xb.cls = "IBMSTT" /\ xb.configured = "en-US"
    /\ xlast.language = None
    /\ xb.lang = "ru-RU"
    /\ xlast.out = XRaise("ValueError", 0) /\ xlast.requests = <<>>
    /\ ~NeverResolves(xb)

\* C27: execute(audio, language) on a streaming backend does what stream_stop
\* does, whatever its arguments: with a stream active it puts the sentinel
\* and joins, and when it has returned the backend has no stream and no
\* queue, the worker has ended and the value returned is that worker's text;
\* with no stream active it returns None at once
C27_ExecuteIsStreamStop ==
    /\ (op = "execute" /\ pc = "stop_join") =>
           (hadStream /\ stream # NoStream /\ SentinelPut(stream))
    /\ (op = "execute" /\ pc = "idle") =>
           /\ stream = NoStream /\ ret.op = "execute" /\ ret.exc = None
           /\ hadStream =>
                  /\ queue = NoQueue /\ ~alive[lastStopped]
                  /\ ret.val = text[lastStopped]
           /\ ~hadStream => ret.val = None

\* execute() has ended the second stream and returned its transcript
C27_Witness ==
    /\ op = "execute" /\ pc = "idle" /\ hadStream
    /\ lastStopped = 2 /\ outcome[2] = "returned"
    /\ ret = Returned("execute", "h2")

====
